---- MODULE Spec2Model ----
(***************************************************************************)
(* Library catalog: the check-out / check-in flow of BookService over the  *)
(* JSON-backed BookRepository and CheckoutHistoryRepository.               *)
(*                                                                         *)
(* Values.  A timestamp is a clock reading t.  Dt(t) is the datetime       *)
(* object, Iso(t) its isoformat() string as stored in the JSON files, None *)
(* is Python's None / JSON null.  All three are pairs so that any two      *)
(* values can be compared.                                                 *)
(***************************************************************************)
EXTENDS Integers, Sequences, FiniteSets, TLC

\* ---------------------------------------------------------------- bounds
MaxBooks == 2      \* books in the store file at start
MaxClock == 2      \* readings of datetime.utcnow() that are told apart
MaxRecords == 2    \* records the history file may hold
MaxAdds == 1       \* add_record calls made by direct callers of the history store
MaxStored == 3     \* books that callers of the book store let it hold
MaxTitleLen == 5   \* characters of the title input of build_books_from_input
MaxAuthorLen == 3  \* characters of the author input of build_books_from_input

\* ---------------------------------------------------------------- values
None == <<"none", 0>>
Dt(t) == <<"dt", t>>
Iso(t) == <<"iso", t>>

\* checkout_history._to_iso: dt.isoformat() if dt else None
_to_iso(dt) == IF dt[1] = "dt" THEN Iso(dt[2]) ELSE None

\* checkout_history._from_iso: datetime.fromisoformat(s) if s else None
_from_iso(s) == IF s[1] = "iso" THEN Dt(s[2]) ELSE None

\* the ids of the books of the initial store, and an id no book has
BookIdName == <<"b1", "b2", "b3", "b4">>
MissingId == "missing-id"
BookIds == {BookIdName[i] : i \in 1..MaxBooks}
CallIds == BookIds \cup {MissingId}

VARIABLES
    books_file,      \* books.json: sequence of book dicts
    books_valid,     \* books.json holds a JSON document (it is not a truncated file)
    history_exists,  \* checkout_history.json exists
    history_file,    \* checkout_history.json: sequence of record dicts
    history_enabled, \* BookService.history_repo is not None
    clock,           \* datetime.utcnow()
    uuid_next,       \* the next value of uuid.uuid4()
    last,            \* the last call: operation, argument, outcome
    mock,            \* MockBookRepo._books, and the outcome of the last call on the mock
    callers          \* the calls in progress of the concurrent callers of the service

vars == <<books_file, books_valid, history_exists, history_file, history_enabled, clock,
          uuid_next, last, mock, callers>>

\* ---------------------------------------------------------------- Book (src/domain/book.py)
\* Book.from_dict: missing keys take the dataclass defaults
Book_from_dict(d) ==
    [book_id |-> d.book_id,
     title |-> d.title,
     available |-> IF "available" \in DOMAIN d THEN d.available ELSE TRUE,
     last_checkout |-> IF "last_checkout" \in DOMAIN d THEN d.last_checkout ELSE None]

\* Book.to_dict
Book_to_dict(b) ==
    [book_id |-> b.book_id, title |-> b.title, available |-> b.available,
     last_checkout |-> b.last_checkout]

\* Book.check_out: raises when the book is already checked out
Book_check_out(b) ==
    IF b.available THEN [raised |-> FALSE, book |-> [b EXCEPT !.available = FALSE]]
    ELSE [raised |-> TRUE, book |-> b]

\* Book.check_in: raises when the book is already available
Book_check_in(b) ==
    IF ~b.available THEN [raised |-> FALSE, book |-> [b EXCEPT !.available = TRUE]]
    ELSE [raised |-> TRUE, book |-> b]

\* ---------------------------------------------------------------- BookRepository
\* BookRepository.get_all_books
get_all_books(file) == [i \in 1..Len(file) |-> Book_from_dict(file[i])]

\* the fields of a Book
BookFields == {"book_id", "title", "available", "last_checkout"}

\* isinstance(b, Book)
isinstance_Book(b) == DOMAIN b = BookFields

\* the argument of add_book / add_record: one object, or a list of objects
One(x) == [list |-> FALSE, items |-> <<x>>]
Many(xs) == [list |-> TRUE, items |-> xs]

\* what add_book / add_record return: one id, or a list of ids
NoRet == <<"none", <<>>>>
OneId(id) == <<"str", <<id>>>>
ManyIds(ids) == <<"list", ids>>

\* the attributes of a Book that are no fields: the methods the code calls
BookMethods == {"to_dict", "from_dict", "check_out", "check_in"}

\* hasattr(b, key)
hasattr_Book(b, key) == key \in DOMAIN b \/ key \in BookMethods

\* the fields of b after setattr for every key of data that is a field,
\* book_id excepted
ApplyBookData(b, data) ==
    [f \in DOMAIN b |->
        IF f \in DOMAIN data /\ f # "book_id" THEN data[f] ELSE b[f]]

\* index of the first element of s whose field key equals id, 0 if none
RECURSIVE FirstIndex(_, _, _, _)
FirstIndex(s, key, id, i) ==
    IF i > Len(s) THEN 0
    ELSE IF s[i][key] = id THEN i
    ELSE FirstIndex(s, key, id, i + 1)

\* update_book that sets the fields on every book once one book has the id
update_book_all(file, book_id, data) ==
    LET books == get_all_books(file)
        i == FirstIndex(books, "book_id", book_id, 1)
    IN IF i = 0 THEN [ok |-> FALSE, raised |-> FALSE, file |-> file]
       ELSE [ok |-> TRUE, raised |-> FALSE,
             file |-> [j \in 1..Len(books) |->
                          Book_to_dict(ApplyBookData(books[j], data))]]

\* BookRepository.update_book: [ok, raised, file].  setattr(b, "to_dict", v)
\* shadows the method on the matched book, so that "bb.to_dict()" raises
\* TypeError inside "with open(self.filepath, 'w')": the file has been
\* truncated by then and stays empty.
update_book(file, book_id, data) ==
    LET books == get_all_books(file)
        i == FirstIndex(books, "book_id", book_id, 1)
    IN IF i = 0 THEN [ok |-> FALSE, raised |-> FALSE, file |-> file]
       ELSE IF \E key \in DOMAIN data :
                  key = "to_dict" /\ hasattr_Book(books[i], key)
            THEN [ok |-> FALSE, raised |-> TRUE, file |-> <<>>]
            ELSE LET updated == [books EXCEPT ![i] = ApplyBookData(books[i], data)]
                 IN [ok |-> TRUE, raised |-> FALSE,
                     file |-> [j \in 1..Len(updated) |-> Book_to_dict(updated[j])]]

\* the write that reads books.json again and updates what it finds there
update_book_write_fresh(file, read, book_id, data) == update_book(file, book_id, data)

\* the second half of BookRepository.update_book: the loop over the books read
\* at "books = self.get_all_books()" and the write of that list; read is the
\* file as it was when it was read, file is the file now
update_book_write(file, read, book_id, data) ==
    LET r == update_book(read, book_id, data)
    IN IF r.ok \/ r.raised THEN r ELSE [r EXCEPT !.file = file]

\* delete_book that removes the first book with the id only
delete_book_first(file, book_id) ==
    LET books == get_all_books(file)
        i == FirstIndex(books, "book_id", book_id, 1)
        filtered == [j \in 1..(Len(books) - 1) |->
                        IF j < i THEN books[j] ELSE books[j + 1]]
    IN IF i = 0 THEN [ok |-> FALSE, raised |-> FALSE, file |-> file]
       ELSE [ok |-> TRUE, raised |-> FALSE,
             file |-> [j \in 1..Len(filtered) |-> Book_to_dict(filtered[j])]]

\* BookRepository.delete_book: every book with the id is filtered out; nothing
\* is written when none was
delete_book(file, book_id) ==
    LET books == get_all_books(file)
        filtered == SelectSeq(books, LAMBDA b : b.book_id # book_id)
    IN IF Len(filtered) = Len(books) THEN [ok |-> FALSE, raised |-> FALSE, file |-> file]
       ELSE [ok |-> TRUE, raised |-> FALSE,
             file |-> [j \in 1..Len(filtered) |-> Book_to_dict(filtered[j])]]

\* the length of the longest prefix of items that are all Books
RECURSIVE BookPrefix(_)
BookPrefix(items) ==
    IF items = <<>> \/ ~isinstance_Book(Head(items)) THEN 0
    ELSE 1 + BookPrefix(Tail(items))

\* add_book that writes the items in front of the item that is no Book
add_book_partial(file, book) ==
    LET books == get_all_books(file)
        n == BookPrefix(book.items)
        all == books \o SubSeq(book.items, 1, n)
    IN [raised |-> n < Len(book.items),
        ret |-> IF n < Len(book.items) THEN NoRet
                ELSE IF book.list THEN ManyIds([j \in 1..n |-> book.items[j].book_id])
                ELSE OneId(book.items[1].book_id),
        file |-> [j \in 1..Len(all) |-> Book_to_dict(all[j])]]

\* add_book that returns the ids and leaves the file as it read it
add_book_unsaved(file, book) ==
    IF \E j \in 1..Len(book.items) : ~isinstance_Book(book.items[j])
    THEN [raised |-> TRUE, ret |-> NoRet, file |-> file]
    ELSE [raised |-> FALSE,
          ret |-> IF book.list
                  THEN ManyIds([j \in 1..Len(book.items) |-> book.items[j].book_id])
                  ELSE OneId(book.items[1].book_id),
          file |-> file]

\* add_book that puts the new books in front of the stored ones
add_book_front(file, book) ==
    LET books == get_all_books(file)
        all == book.items \o books
    IN IF \E j \in 1..Len(book.items) : ~isinstance_Book(book.items[j])
       THEN [raised |-> TRUE, ret |-> NoRet, file |-> file]
       ELSE [raised |-> FALSE,
             ret |-> IF book.list
                     THEN ManyIds([j \in 1..Len(book.items) |-> book.items[j].book_id])
                     ELSE OneId(book.items[1].book_id),
             file |-> [j \in 1..Len(all) |-> Book_to_dict(all[j])]]

\* BookRepository.add_book: [raised, ret, file].  A list is checked item by
\* item before books.extend; a single object before books.append; the file is
\* written last.
add_book(file, book) ==
    LET books == get_all_books(file)
    IN IF book.list
       THEN IF \E j \in 1..Len(book.items) : ~isinstance_Book(book.items[j])
            THEN [raised |-> TRUE, ret |-> NoRet, file |-> file]
            ELSE LET all == books \o book.items
                 IN [raised |-> FALSE,
                     ret |-> ManyIds([j \in 1..Len(book.items) |-> book.items[j].book_id]),
                     file |-> [j \in 1..Len(all) |-> Book_to_dict(all[j])]]
       ELSE IF ~isinstance_Book(book.items[1])
            THEN [raised |-> TRUE, ret |-> NoRet, file |-> file]
            ELSE LET all == Append(books, book.items[1])
                 IN [raised |-> FALSE,
                     ret |-> OneId(book.items[1].book_id),
                     file |-> [j \in 1..Len(all) |-> Book_to_dict(all[j])]]

\* ---------------------------------------------------------------- MockBookRepo
\* (src/tests/mocks/mock_book__repository.py).  books is self._books: the Book
\* objects themselves, which callers of get_all_books share with the mock.
\* MockBookRepo.get_all_books: a new list of the same objects
mock_get_all_books(books) == books

\* MockBookRepo.add_book: [raised, ret, books]
mock_add_book(books, book) ==
    IF book.list
    THEN IF ~(\A j \in 1..Len(book.items) : isinstance_Book(book.items[j]))
         THEN [raised |-> TRUE, ret |-> NoRet, books |-> books]
         ELSE [raised |-> FALSE,
               ret |-> ManyIds([j \in 1..Len(book.items) |-> book.items[j].book_id]),
               books |-> books \o book.items]
    ELSE IF ~isinstance_Book(book.items[1])
         THEN [raised |-> TRUE, ret |-> NoRet, books |-> books]
         ELSE [raised |-> FALSE, ret |-> OneId(book.items[1].book_id),
               books |-> Append(books, book.items[1])]

\* MockBookRepo.delete_book: "del self._books[i]" for the first book with the id
mock_delete_book(books, book_id) ==
    LET i == FirstIndex(books, "book_id", book_id, 1)
    IN IF i = 0 THEN [ok |-> FALSE, raised |-> FALSE, books |-> books]
       ELSE [ok |-> TRUE, raised |-> FALSE,
             books |-> [j \in 1..(Len(books) - 1) |->
                           IF j < i THEN books[j] ELSE books[j + 1]]]

\* the fields of b after setattr for every key of data that b has: book_id
\* is set like any other field, a method name is shadowed on the object
ApplyMockData(b, data) ==
    [f \in DOMAIN b |-> IF f \in DOMAIN data THEN data[f] ELSE b[f]]

\* MockBookRepo.update_book: [ok, raised, books]
mock_update_book(books, book_id, data) ==
    LET i == FirstIndex(books, "book_id", book_id, 1)
    IN IF i = 0 THEN [ok |-> FALSE, raised |-> FALSE, books |-> books]
       ELSE [ok |-> TRUE, raised |-> FALSE,
             books |-> [books EXCEPT ![i] = ApplyMockData(books[i], data)]]

\* ---------------------------------------------------------------- CheckoutRecord
CheckoutRecordFields ==
    {"book_id", "user_id", "checkout_at", "returned_at", "notes", "record_id"}

\* kwargs[k] if the caller passed k, else the field's default
Kwarg(kwargs, k, default) == IF k \in DOMAIN kwargs THEN kwargs[k] ELSE default

\* a constructor that drops the keywords it does not know instead of raising
CheckoutRecord_init_lenient(kwargs, now, uuid) ==
    [raised |-> FALSE,
     record |-> [book_id |-> kwargs["book_id"],
                 user_id |-> Kwarg(kwargs, "user_id", None),
                 checkout_at |-> Kwarg(kwargs, "checkout_at", Dt(now)),
                 returned_at |-> Kwarg(kwargs, "returned_at", None),
                 notes |-> Kwarg(kwargs, "notes", None),
                 record_id |-> Kwarg(kwargs, "record_id", uuid)]]

\* CheckoutRecord(**kwargs): the dataclass __init__.  A keyword that is no
\* field, or a missing book_id, raises TypeError before any default is made.
CheckoutRecord_init(kwargs, now, uuid) ==
    IF ~(DOMAIN kwargs \subseteq CheckoutRecordFields) \/ "book_id" \notin DOMAIN kwargs
    THEN [raised |-> TRUE, record |-> None]
    ELSE [raised |-> FALSE,
          record |-> [book_id |-> kwargs["book_id"],
                      user_id |-> Kwarg(kwargs, "user_id", None),
                      checkout_at |-> Kwarg(kwargs, "checkout_at", Dt(now)),
                      returned_at |-> Kwarg(kwargs, "returned_at", None),
                      notes |-> Kwarg(kwargs, "notes", None),
                      record_id |-> Kwarg(kwargs, "record_id", uuid)]]

\* CheckoutRecord.mark_returned: self.returned_at = returned_at or utcnow()
mark_returned(r, returned_at, now) ==
    [r EXCEPT !.returned_at = IF returned_at # None THEN returned_at ELSE Dt(now)]

\* CheckoutRecord.is_returned
is_returned(r) == r.returned_at # None

\* CheckoutRecord.to_dict
to_dict(r) ==
    [record_id |-> r.record_id,
     book_id |-> r.book_id,
     user_id |-> r.user_id,
     checkout_at |-> _to_iso(r.checkout_at),
     returned_at |-> _to_iso(r.returned_at),
     notes |-> r.notes]

\* CheckoutRecord.from_dict: a null checkout_at becomes utcnow(), an empty
\* record_id (0) a fresh uuid
from_dict(d, now, uuid) ==
    [book_id |-> d.book_id,
     user_id |-> d.user_id,
     checkout_at |-> IF _from_iso(d.checkout_at) # None
                     THEN _from_iso(d.checkout_at) ELSE Dt(now),
     returned_at |-> _from_iso(d.returned_at),
     notes |-> d.notes,
     record_id |-> IF d.record_id # 0 THEN d.record_id ELSE uuid]

\* ---------------------------------------------------------------- CheckoutHistoryRepository
\* CheckoutHistoryRepository._load: [] while the file does not exist
_load(exists, file) == IF exists THEN file ELSE <<>>

\* CheckoutHistoryRepository.get_all_records
get_all_records(exists, file, now, uuid) ==
    LET data == _load(exists, file)
    IN [i \in 1..Len(data) |-> from_dict(data[i], now, uuid)]

\* CheckoutHistoryRepository.add_record (single record): the file it saves
add_record(exists, file, record, now, uuid) ==
    LET records == Append(get_all_records(exists, file, now, uuid), record)
    IN [i \in 1..Len(records) |-> to_dict(records[i])]

\* isinstance(r, CheckoutRecord)
isinstance_CheckoutRecord(r) == DOMAIN r = CheckoutRecordFields

\* add_record that saves the stored records and the last item only
add_records_last_only(exists, file, record, now, uuid) ==
    LET records == get_all_records(exists, file, now, uuid)
        n == Len(record.items)
        all == IF n = 0 THEN records ELSE Append(records, record.items[n])
    IN [raised |-> FALSE,
        ret |-> IF record.list
                THEN ManyIds([j \in 1..n |-> record.items[j].record_id])
                ELSE OneId(record.items[1].record_id),
        file |-> [j \in 1..Len(all) |-> to_dict(all[j])]]

\* CheckoutHistoryRepository.add_record, one record or a list: [raised, ret,
\* file].  Every item is checked before records.extend / records.append, and
\* _save comes last.
add_records(exists, file, record, now, uuid) ==
    LET records == get_all_records(exists, file, now, uuid)
    IN IF record.list
       THEN IF ~(\A j \in 1..Len(record.items) : isinstance_CheckoutRecord(record.items[j]))
            THEN [raised |-> TRUE, ret |-> NoRet, file |-> file]
            ELSE LET all == records \o record.items
                 IN [raised |-> FALSE,
                     ret |-> ManyIds([j \in 1..Len(record.items) |->
                                         record.items[j].record_id]),
                     file |-> [j \in 1..Len(all) |-> to_dict(all[j])]]
       ELSE IF ~isinstance_CheckoutRecord(record.items[1])
            THEN [raised |-> TRUE, ret |-> NoRet, file |-> file]
            ELSE LET all == Append(records, record.items[1])
                 IN [raised |-> FALSE,
                     ret |-> OneId(record.items[1].record_id),
                     file |-> [j \in 1..Len(all) |-> to_dict(all[j])]]

\* find_by_book_id that leaves the returned records out
find_open_by_book_id(exists, file, book_id, now, uuid) ==
    SelectSeq(get_all_records(exists, file, now, uuid),
              LAMBDA r : r.book_id = book_id /\ ~is_returned(r))

\* CheckoutHistoryRepository.find_by_book_id
find_by_book_id(exists, file, book_id, now, uuid) ==
    SelectSeq(get_all_records(exists, file, now, uuid), LAMBDA r : r.book_id = book_id)

\* the data loop without the record_id guard
ApplyRecordData_with_id(d, data) ==
    [k \in DOMAIN d \cup DOMAIN data |->
        IF k \in DOMAIN data
        THEN IF k # "record_id" /\ data[k][1] = "dt" THEN Iso(data[k][2]) ELSE data[k]
        ELSE d[k]]

\* the dict d after "for k, v in data.items()": record_id is skipped, a
\* datetime is stored as its iso string, any other value as it is
ApplyRecordData(d, data) ==
    [k \in DOMAIN d \cup (DOMAIN data \ {"record_id"}) |->
        IF k \in DOMAIN data /\ k # "record_id"
        THEN IF data[k][1] = "dt" THEN Iso(data[k][2]) ELSE data[k]
        ELSE d[k]]

\* CheckoutHistoryRepository.update_record: [ok, file]
update_record(exists, file, record_id, data) ==
    LET raw == _load(exists, file)
        i == FirstIndex(raw, "record_id", record_id, 1)
    IN IF i = 0 THEN [ok |-> FALSE, file |-> file]
       ELSE [ok |-> TRUE, file |-> [raw EXCEPT ![i] = ApplyRecordData(raw[i], data)]]

\* ---------------------------------------------------------------- BookService
\* the stores and generators a service call reads and writes
Stores ==
    [books_file |-> books_file, books_valid |-> books_valid,
     history_exists |-> history_exists, history_file |-> history_file,
     uuid_next |-> uuid_next, fault |-> "none"]

\* what the book store does to the call that is made under it:
\*   "read"    books.json cannot be read when the service takes its snapshot
\*   "update"  books.json cannot be read or written when update_book runs
\*   "deleted" another writer deletes the book between the snapshot and update_book
Faults == {"none", "read", "update", "deleted"}

\* an argument that is no str
NonStrId == "<not a str>"
isinstance_str(book_id) == book_id # NonStrId

\* the call returned True
Return(st) == [result |-> "ok", st |-> st]

\* the call raised, and the stores are put back as the call found them
Raise_restoring(st, kind) ==
    [result |-> kind,
     st |-> [st EXCEPT !.books_file = books_file, !.history_file = history_file,
                       !.history_exists = history_exists]]

\* the call raised: st is what the stores hold when the exception leaves
Raise(st, kind) == [result |-> kind, st |-> st]

\* the loop with the comparison inverted: the first book with another id
RECURSIVE Locate_other(_, _)
Locate_other(books, book_id) ==
    IF books = <<>> THEN 0
    ELSE IF Head(books).book_id # book_id THEN 1
    ELSE LET r == Locate_other(Tail(books), book_id) IN IF r = 0 THEN 0 ELSE r + 1

\* "for b in books: if b.book_id == book_id: found = b; break": index, 0 if not found
Locate(books, book_id) == FirstIndex(books, "book_id", book_id, 1)

\* the update that writes None into the stamp when data does not name it
persist_resetting(st, book_id, data) ==
    LET full == [k \in DOMAIN data \cup {"last_checkout"} |->
                    IF k \in DOMAIN data THEN data[k] ELSE None]
    IN [raised |-> FALSE,
        st |-> [st EXCEPT !.books_file = update_book(st.books_file, book_id, full).file]]

\* self.repo.update_book(book_id, data) with the failure swallowed
persist_swallowed(st, book_id, data) ==
    LET seen == IF st.fault = "deleted"
                THEN delete_book(st.books_file, book_id).file ELSE st.books_file
    IN [raised |-> FALSE,
        st |-> IF st.fault = "update" THEN st
               ELSE [st EXCEPT !.books_file = update_book(seen, book_id, data).file]]

\* "self.repo.update_book(book_id, {...})": an exception of the store leaves the
\* service call; the bool the store returns is dropped
persist(st, book_id, data) ==
    LET seen == IF st.fault = "deleted"
                THEN delete_book(st.books_file, book_id).file ELSE st.books_file
    IN IF st.fault = "update" THEN [raised |-> TRUE, st |-> st]
       ELSE [raised |-> FALSE,
             st |-> [st EXCEPT !.books_file = update_book(seen, book_id, data).file]]

\* history_repo.add_record(rec) from a service call
RecordHistory(st, rec, now) ==
    [st EXCEPT !.history_file =
                  add_record(st.history_exists, st.history_file, rec, now, st.uuid_next),
               !.history_exists = TRUE,
               !.uuid_next = st.uuid_next + 1]

\* "found.check_out()" without the domain rule: the flag is set, nothing raises
found_check_out_unchecked(found) ==
    [raised |-> FALSE, book |-> [found EXCEPT !.available = FALSE]]

\* BookService.check_out, "found.check_out()": the domain rule decides, and its
\* exception leaves the service call
found_check_out(found) == Book_check_out(found)

\* "found.check_in()" without the domain rule
found_check_in_unchecked(found) ==
    [raised |-> FALSE, book |-> [found EXCEPT !.available = TRUE]]

\* BookService.check_in, "found.check_in()"
found_check_in(found) == Book_check_in(found)

\* check_out with the stamp and the update written before the domain rule is asked
check_out_persist_first(st, enabled, book_id, now) ==
    LET books == get_all_books(st.books_file)
        i == Locate(books, book_id)
    IN IF i = 0 THEN Raise(st, "NotFound")
       ELSE LET upd == update_book(st.books_file, book_id,
                           [available |-> FALSE, last_checkout |-> Iso(now)])
                st1 == [st EXCEPT !.books_file = upd.file]
                dom == found_check_out(books[i])
            IN IF dom.raised THEN Raise(st1, "InvalidStateTransition")
               ELSE IF ~enabled THEN Return(st1)
               ELSE LET rec == CheckoutRecord_init(
                                   [book_id |-> book_id, action |-> "check_out",
                                    timestamp |-> Iso(now)],
                                   now, st.uuid_next)
                    IN IF rec.raised THEN Raise(st1, "TypeError")
                       ELSE Return(RecordHistory(st1, rec.record, now))

\* BookService.check_out
check_out(st, enabled, book_id, now) ==
    IF ~isinstance_str(book_id) THEN Raise(st, "TypeError")
    ELSE IF st.fault = "read" \/ ~st.books_valid THEN Raise(st, "StorageUnavailable")
    ELSE
    LET books == get_all_books(st.books_file)
        i == Locate(books, book_id)
    IN IF i = 0 THEN Raise(st, "NotFound")
       ELSE LET dom == found_check_out(books[i])
            IN IF dom.raised THEN Raise(st, "InvalidStateTransition")
               ELSE LET found == [dom.book EXCEPT !.last_checkout = Iso(now)]
                        upd == persist(st, book_id,
                                   [available |-> found.available,
                                    last_checkout |-> found.last_checkout])
                        st1 == upd.st
                    IN IF upd.raised THEN Raise(st, "StorageUnavailable")
                       ELSE IF ~enabled THEN Return(st1)
                       ELSE LET rec == CheckoutRecord_init(
                                           [book_id |-> book_id, action |-> "check_out",
                                            timestamp |-> found.last_checkout],
                                           now, st.uuid_next)
                            IN IF rec.raised THEN Raise(st1, "TypeError")
                               ELSE Return(RecordHistory(st1, rec.record, now))

\* BookService.check_in
check_in(st, enabled, book_id, now) ==
    IF ~isinstance_str(book_id) THEN Raise(st, "TypeError")
    ELSE IF st.fault = "read" \/ ~st.books_valid THEN Raise(st, "StorageUnavailable")
    ELSE
    LET books == get_all_books(st.books_file)
        i == Locate(books, book_id)
    IN IF i = 0 THEN Raise(st, "NotFound")
       ELSE LET dom == found_check_in(books[i])
            IN IF dom.raised THEN Raise(st, "InvalidStateTransition")
               ELSE LET found == dom.book
                        upd == persist(st, book_id, [available |-> found.available])
                        st1 == upd.st
                    IN IF upd.raised THEN Raise(st, "StorageUnavailable")
                       ELSE IF ~enabled THEN Return(st1)
                       ELSE LET rec == CheckoutRecord_init(
                                           [book_id |-> book_id, action |-> "check_in",
                                            timestamp |-> Iso(now)],
                                           now, st.uuid_next)
                            IN IF rec.raised THEN Raise(st1, "TypeError")
                               ELSE Return(RecordHistory(st1, rec.record, now))

\* BookService.add_book: the type validation, then repo.add_book
service_add_book(file, book) ==
    IF book.list
    THEN IF ~(\A j \in 1..Len(book.items) : isinstance_Book(book.items[j]))
         THEN [raised |-> TRUE, ret |-> NoRet, file |-> file]
         ELSE add_book(file, book)
    ELSE IF ~isinstance_Book(book.items[1])
         THEN [raised |-> TRUE, ret |-> NoRet, file |-> file]
         ELSE add_book(file, book)

\* an object that is no dict
NotADict == [not_a_dict |-> TRUE]
isinstance_dict(data) == data # NotADict

\* the bool a repository call returned, or the exception it raised while it
\* wrote books.json
RepoOutcome(st, r) ==
    [result |-> IF r.raised THEN "TypeError" ELSE IF r.ok THEN "true" ELSE "false",
     st |-> [st EXCEPT !.books_file = r.file,
                       !.books_valid = st.books_valid /\ ~r.raised]]

\* BookService.update_book: the type validation, then repo.update_book
service_update_book(st, book_id, data) ==
    IF ~isinstance_str(book_id) THEN Raise(st, "TypeError")
    ELSE IF ~isinstance_dict(data) THEN Raise(st, "TypeError")
    ELSE IF ~st.books_valid THEN Raise(st, "JSONDecodeError")
    ELSE RepoOutcome(st, update_book(st.books_file, book_id, data))

\* BookService.delete_book: the type validation, then repo.delete_book
service_delete_book(st, book_id) ==
    IF ~isinstance_str(book_id) THEN Raise(st, "TypeError")
    ELSE IF ~st.books_valid THEN Raise(st, "JSONDecodeError")
    ELSE RepoOutcome(st, delete_book(st.books_file, book_id))

\* BookService(MockBookRepo(...)).check_out: [result, books].  found is one of
\* the objects the mock holds, so found.check_out() and the stamp change the
\* mock's book before update_book is called.
mock_check_out(books, book_id, now) ==
    IF ~isinstance_str(book_id) THEN [result |-> "TypeError", books |-> books]
    ELSE
    LET snapshot == mock_get_all_books(books)
        i == Locate(snapshot, book_id)
    IN IF i = 0 THEN [result |-> "NotFound", books |-> books]
       ELSE LET dom == found_check_out(snapshot[i])
            IN IF dom.raised THEN [result |-> "InvalidStateTransition", books |-> books]
               ELSE LET found == [dom.book EXCEPT !.last_checkout = Iso(now)]
                        shared == [books EXCEPT ![i] = found]
                        upd == mock_update_book(shared, book_id,
                                   [available |-> found.available,
                                    last_checkout |-> found.last_checkout])
                    IN [result |-> "ok", books |-> upd.books]

\* ---- build_books_from_input.  A str is a sequence of characters.
\* str.split(","): the pieces between the commas, empty ones included
RECURSIVE split(_)
split(str) ==
    IF \A i \in 1..Len(str) : str[i] # "," THEN <<str>>
    ELSE LET i == CHOOSE k \in 1..Len(str) :
                     str[k] = "," /\ \A j \in 1..(k - 1) : str[j] # ","
         IN <<SubSeq(str, 1, i - 1)>> \o split(SubSeq(str, i + 1, Len(str)))

\* str.lstrip(), str.rstrip(), str.strip()
RECURSIVE lstrip(_)
lstrip(str) == IF str # <<>> /\ Head(str) = " " THEN lstrip(Tail(str)) ELSE str
RECURSIVE rstrip(_)
rstrip(str) ==
    IF str # <<>> /\ str[Len(str)] = " " THEN rstrip(SubSeq(str, 1, Len(str) - 1))
    ELSE str
strip(str) == rstrip(lstrip(str))

\* an argument that is no str
NotAStr == <<NonStrId>>

\* "[x.strip() for x in input.split(',')]" and "[x for x in xs if x]"
Entries(input) ==
    LET pieces == split(input)
        stripped == [i \in 1..Len(pieces) |-> strip(pieces[i])]
    IN SelectSeq(stripped, LAMBDA x : x # <<>>)

\* the pairing loop that starts again at the first element of the shorter list
PairCycling(titles, authors, i) ==
    [title |-> titles[((i - 1) % Len(titles)) + 1],
     author |-> authors[((i - 1) % Len(authors)) + 1]]

\* "t = titles[i] if i < len(titles) else titles[-1]", the same for authors,
\* and Book(title=t, author=a)
Pair(titles, authors, i) ==
    [title |-> IF i <= Len(titles) THEN titles[i] ELSE titles[Len(titles)],
     author |-> IF i <= Len(authors) THEN authors[i] ELSE authors[Len(authors)]]

\* BookService.build_books_from_input: [raised, books]
build_books_from_input(title_input, author_input) ==
    IF title_input = NotAStr \/ author_input = NotAStr
    THEN [raised |-> TRUE, books |-> <<>>]
    ELSE LET titles == Entries(title_input)
             found == Entries(author_input)
         IN IF titles = <<>> THEN [raised |-> FALSE, books |-> <<>>]
            ELSE LET authors == IF found = <<>> THEN << <<>> >> ELSE found
                     max_len == IF Len(titles) >= Len(authors)
                                THEN Len(titles) ELSE Len(authors)
                 IN [raised |-> FALSE,
                     books |-> [i \in 1..max_len |-> Pair(titles, authors, i)]]

\* ---------------------------------------------------------------- state machine
\* books.json as the catalog-entry flow leaves it: n books, all available
InitialBooks(n) ==
    [i \in 1..n |-> [book_id |-> BookIdName[i], title |-> "title",
                     available |-> TRUE, last_checkout |-> None]]

\* no argument object
NoArg == [list |-> FALSE, items |-> <<>>]

NoCall == [op |-> "none", id |-> "", result |-> "", fault |-> "none",
           arg |-> NoArg, ret |-> NoRet]

\* MockBookRepo(): no books, no call made
NoMock == [books |-> <<>>, result |-> "", ret |-> NoRet]

\* the concurrent callers, and a caller that has no call in progress
Callers == {"c1", "c2"}
Idle == [pc |-> "idle", op |-> "none", id |-> "", books |-> <<>>, data |-> <<>>,
         result |-> "", stale |-> FALSE]

Init ==
    /\ \E n \in 0..MaxBooks : books_file = InitialBooks(n)
    /\ books_valid = TRUE
    /\ history_exists = FALSE
    /\ history_file = <<>>
    /\ history_enabled \in BOOLEAN
    /\ clock = 1
    /\ uuid_next = 1
    /\ last = NoCall
    /\ mock = NoMock
    /\ callers = [c \in Callers |-> Idle]

\* the stores after a call, and the record of the call with the object it
\* was given and the ids it returned
CommitCall(op, id, arg, ret, out) ==
    /\ Len(out.st.history_file) <= MaxRecords
    /\ books_file' = out.st.books_file
    /\ books_valid' = out.st.books_valid
    /\ history_exists' = out.st.history_exists
    /\ history_file' = out.st.history_file
    /\ uuid_next' = out.st.uuid_next
    /\ last' = [op |-> op, id |-> id, result |-> out.result, fault |-> out.st.fault,
                arg |-> arg, ret |-> ret]
    /\ UNCHANGED <<mock, callers>>

\* the stores after a call, and the record of the call
Commit(op, id, out) == CommitCall(op, id, NoArg, NoRet, out)

\* time passes between two calls
Tick ==
    /\ clock < MaxClock
    /\ clock' = clock + 1
    /\ UNCHANGED <<books_file, books_valid, history_exists, history_file,
                   history_enabled, uuid_next, last, mock, callers>>

\* the REPL calls book_service.check_out(book_id)
CheckOut ==
    \E id \in CallIds :
        /\ Commit("check_out", id, check_out(Stores, history_enabled, id, clock))
        /\ UNCHANGED <<history_enabled, clock>>

\* the REPL calls book_service.check_in(book_id)
CheckIn ==
    \E id \in CallIds :
        /\ Commit("check_in", id, check_in(Stores, history_enabled, id, clock))
        /\ UNCHANGED <<history_enabled, clock>>

\* the book ids direct callers of the history store pass
RecordBookIds == {BookIdName[1]}

\* a caller of the history store adds CheckoutRecord(book_id=id)
AddRecord ==
    \E id \in RecordBookIds :
        LET rec == CheckoutRecord_init([book_id |-> id], clock, uuid_next)
        IN /\ Len(history_file) < MaxAdds
           /\ Commit("add_record", "", Return(RecordHistory(Stores, rec.record, clock)))
           /\ UNCHANGED <<history_enabled, clock>>

\* the mappings a caller passes to update_record
RecordData ==
    {[returned_at |-> v] : v \in {None, Dt(clock)}}
        \cup {[record_id |-> 0, notes |-> None]}

\* a caller of the history store calls update_record(record_id, data)
UpdateRecord ==
    \E rid \in 1..MaxRecords, data \in RecordData :
        LET upd == update_record(history_exists, history_file, rid, data)
        IN /\ Commit("update_record", "",
                     [result |-> IF upd.ok THEN "ok" ELSE "false",
                      st |-> [Stores EXCEPT !.history_file = upd.file]])
           /\ UNCHANGED <<history_enabled, clock>>

\* the arguments of a service call that may be of the wrong type
AnyIds == CallIds \cup {NonStrId}

\* check_out(book_id) while the book store fails, or another writer interferes
CheckOutFaulty ==
    \E id \in AnyIds, f \in Faults :
        /\ Commit("check_out", id,
                  check_out([Stores EXCEPT !.fault = f], history_enabled, id, clock))
        /\ UNCHANGED <<history_enabled, clock>>

\* check_in(book_id) while the book store fails, or another writer interferes
CheckInFaulty ==
    \E id \in AnyIds, f \in Faults :
        /\ Commit("check_in", id,
                  check_in([Stores EXCEPT !.fault = f], history_enabled, id, clock))
        /\ UNCHANGED <<history_enabled, clock>>

\* ---- callers of the two stores
\* the store files before anything was added
InitStore ==
    /\ books_file = <<>>
    /\ books_valid = TRUE
    /\ history_exists = FALSE
    /\ history_file = <<>>
    /\ history_enabled = FALSE
    /\ clock = 1
    /\ uuid_next = 1
    /\ last = NoCall
    /\ mock = NoMock
    /\ callers = [c \in Callers |-> Idle]

\* the ids of the Book objects a caller holds
HeldIds == {BookIdName[1], BookIdName[2]}

\* Book(title=..., author=...) as its defaults leave it
NewBook(id) ==
    [book_id |-> id, title |-> "title", available |-> TRUE, last_checkout |-> None]

\* an object that is neither a Book nor a CheckoutRecord
NotARecord == [junk |-> 0]

\* what callers pass to add_book
BookItems == {NewBook(id) : id \in HeldIds} \cup {NotARecord}
BookArgs ==
    {One(x) : x \in BookItems}
        \cup {Many(<<>>)}
        \cup {Many(<<x>>) : x \in BookItems}
        \cup {Many(<<x, y>>) : x \in BookItems, y \in BookItems}

\* json.load of a truncated books.json raises: nothing is read or written
Unreadable == [result |-> "JSONDecodeError", st |-> Stores]

\* the outcome of an add_book call over the book file
AddOutcome(r) ==
    [result |-> IF r.raised THEN "TypeError" ELSE "ok",
     st |-> [Stores EXCEPT !.books_file = r.file]]

\* a caller of the book store calls add_book(book)
AddBook ==
    \E book \in BookArgs :
        LET r == add_book(books_file, book)
        IN /\ Len(r.file) <= MaxStored
           /\ IF books_valid
              THEN CommitCall("add_book", "", book, r.ret, AddOutcome(r))
              ELSE CommitCall("add_book", "", book, NoRet, Unreadable)
           /\ UNCHANGED <<history_enabled, clock>>

\* a caller of the service calls add_book(book)
ServiceAddBook ==
    \E book \in BookArgs :
        LET r == service_add_book(books_file, book)
        IN /\ Len(r.file) <= MaxStored
           /\ IF books_valid \/ r.raised
              THEN CommitCall("service_add_book", "", book, r.ret, AddOutcome(r))
              ELSE CommitCall("service_add_book", "", book, NoRet, Unreadable)
           /\ UNCHANGED <<history_enabled, clock>>

\* the ids callers pass to update_book and delete_book
StoreCallIds == HeldIds \cup {MissingId}

\* the mappings callers pass to update_book
BookData ==
    {[book_id |-> MissingId, title |-> "renamed"], [shelf |-> "A3"], [title |-> "title"],
     [to_dict |-> None]}

\* the outcome of a call that returns a bool, or raises while it writes
BoolOutcome(r) ==
    [result |-> IF r.raised THEN "TypeError" ELSE IF r.ok THEN "true" ELSE "false",
     st |-> [Stores EXCEPT !.books_file = r.file, !.books_valid = ~r.raised]]

\* a caller of the book store calls update_book(book_id, data)
UpdateBook ==
    \E id \in StoreCallIds, data \in BookData :
        /\ Commit("update_book", id,
                  IF books_valid THEN BoolOutcome(update_book(books_file, id, data))
                  ELSE Unreadable)
        /\ UNCHANGED <<history_enabled, clock>>

\* a caller of the book store calls delete_book(book_id)
DeleteBook ==
    \E id \in StoreCallIds :
        /\ Commit("delete_book", id,
                  IF books_valid THEN BoolOutcome(delete_book(books_file, id))
                  ELSE Unreadable)
        /\ UNCHANGED <<history_enabled, clock>>

\* what callers pass to add_record: CheckoutRecord(book_id=...) objects
RecordArgs ==
    LET r1 == CheckoutRecord_init([book_id |-> BookIdName[1]], clock, uuid_next).record
        r2 == CheckoutRecord_init([book_id |-> BookIdName[1]], clock, uuid_next + 1).record
    IN {One(r1), One(NotARecord), Many(<<>>), Many(<<r1>>), Many(<<r1, r2>>),
        Many(<<r1, NotARecord>>), Many(<<NotARecord, r1>>)}

\* a caller of the history store calls add_record(record)
AddRecords ==
    \E record \in RecordArgs :
        LET r == add_records(history_exists, history_file, record, clock, uuid_next)
        IN /\ CommitCall("add_record", "", record, r.ret,
                         [result |-> IF r.raised THEN "TypeError" ELSE "ok",
                          st |-> [Stores EXCEPT
                                     !.history_file = r.file,
                                     !.history_exists = history_exists \/ ~r.raised,
                                     !.uuid_next = IF r.raised THEN uuid_next
                                                   ELSE uuid_next + Len(record.items)]])
           /\ UNCHANGED <<history_enabled, clock>>

\* ---- callers of the history store
\* CheckoutRecord(book_id=id), the k-th record made since the last call
NewRecord(id, k) ==
    CheckoutRecord_init([book_id |-> id], clock, uuid_next + k - 1).record

\* what callers pass to add_record: records of two books
HistoryArgs ==
    {One(NewRecord(id, 1)) : id \in HeldIds}
        \cup {Many(<<>>)}
        \cup {Many(<<NewRecord(id, 1), NewRecord(other, 2)>>) :
                 id \in HeldIds, other \in HeldIds}

\* a caller of the history store calls add_record(record)
AddRecordsFor ==
    \E record \in HistoryArgs :
        LET r == add_records(history_exists, history_file, record, clock, uuid_next)
        IN /\ CommitCall("add_record", "", record, r.ret,
                         [result |-> IF r.raised THEN "TypeError" ELSE "ok",
                          st |-> [Stores EXCEPT
                                     !.history_file = r.file,
                                     !.history_exists = history_exists \/ ~r.raised,
                                     !.uuid_next = IF r.raised THEN uuid_next
                                                   ELSE uuid_next + Len(record.items)]])
           /\ UNCHANGED <<history_enabled, clock>>

\* the mappings callers pass to update_record, one with a record_id key
HistoryData ==
    {[returned_at |-> Dt(clock)], [record_id |-> 0, returned_at |-> Dt(clock)]}

\* a caller of the history store calls update_record(record_id, data)
UpdateRecordById ==
    \E rid \in 1..MaxRecords, data \in HistoryData :
        LET upd == update_record(history_exists, history_file, rid, data)
        IN /\ CommitCall("update_record", "", One(rid), NoRet,
                         [result |-> IF upd.ok THEN "true" ELSE "false",
                          st |-> [Stores EXCEPT !.history_file = upd.file]])
           /\ UNCHANGED <<history_enabled, clock>>

\* a caller of the history store calls find_by_book_id(book_id)
FindByBookId ==
    \E id \in StoreCallIds :
        /\ CommitCall("find_by_book_id", id, NoArg,
                      <<"list", find_by_book_id(history_exists, history_file, id,
                                                clock, uuid_next)>>,
                      Return(Stores))
        /\ UNCHANGED <<history_enabled, clock>>

\* ---- callers of build_books_from_input
\* the strings of at most n characters of an alphabet
Strs(chars, n) == UNION {[1..k -> chars] : k \in 0..n}

\* what the REPL passes as titles and as authors
TitleInputs == Strs({"a", ",", " "}, MaxTitleLen) \cup {NotAStr}
AuthorInputs == Strs({"a", "b", ",", " "}, MaxAuthorLen) \cup {NotAStr}

\* the REPL has read the two inputs of the add-book command
InitBuild ==
    /\ books_file = <<>>
    /\ books_valid = TRUE
    /\ history_exists = FALSE
    /\ history_file = <<>>
    /\ history_enabled = FALSE
    /\ clock = 1
    /\ uuid_next = 1
    /\ \E title_input \in TitleInputs, author_input \in AuthorInputs :
          last = [NoCall EXCEPT !.arg = Many(<<title_input, author_input>>)]
    /\ mock = NoMock
    /\ callers = [c \in Callers |-> Idle]

\* the REPL calls build_books_from_input(title_input, author_input)
BuildBooks ==
    LET r == build_books_from_input(last.arg.items[1], last.arg.items[2])
    IN /\ last.op = "none"
       /\ CommitCall("build_books_from_input", "", last.arg, <<"list", r.books>>,
                     IF r.raised THEN Raise(Stores, "TypeError") ELSE Return(Stores))
       /\ UNCHANGED <<history_enabled, clock>>

\* ---- callers of the other service operations
\* the mappings callers pass to BookService.update_book
ServiceData ==
    {[available |-> TRUE], [available |-> FALSE], [title |-> "renamed"], NotADict}

\* a caller of the service calls update_book(book_id, data)
ServiceUpdateBook ==
    \E id \in AnyIds, data \in ServiceData :
        /\ CommitCall("service_update_book", id, One(data), NoRet,
                      service_update_book(Stores, id, data))
        /\ UNCHANGED <<history_enabled, clock>>

\* a caller of the service calls delete_book(book_id)
ServiceDeleteBook ==
    \E id \in AnyIds :
        /\ Commit("service_delete_book", id, service_delete_book(Stores, id))
        /\ UNCHANGED <<history_enabled, clock>>

\* ---- the same call made on a BookRepository and on a MockBookRepo
\* the outcome of the call on the repository and of the call on the mock
CommitBoth(op, id, arg, ret, out, m) ==
    /\ books_file' = out.st.books_file
    /\ books_valid' = out.st.books_valid
    /\ last' = [op |-> op, id |-> id, result |-> out.result, fault |-> "none",
                arg |-> arg, ret |-> ret]
    /\ mock' = m

\* the outcome of a call on the mock that returns a bool
MockBool(r) ==
    [books |-> r.books, result |-> IF r.ok THEN "true" ELSE "false", ret |-> NoRet]

\* the two have answered every call alike and hold the same books
SameSoFar ==
    /\ mock.result = last.result
    /\ mock.ret = last.ret
    /\ books_valid
    /\ mock.books = get_all_books(books_file)

\* add_book(book) on both
BothAddBook ==
    \E book \in BookArgs :
        LET r == add_book(books_file, book)
            m == mock_add_book(mock.books, book)
        IN /\ SameSoFar
           /\ Len(r.file) <= MaxStored
           /\ CommitBoth("add_book", "", book, r.ret, AddOutcome(r),
                         [books |-> m.books,
                          result |-> IF m.raised THEN "TypeError" ELSE "ok",
                          ret |-> m.ret])
           /\ UNCHANGED <<history_exists, history_file, history_enabled, clock,
                          uuid_next, callers>>

\* update_book(book_id, data) on both
BothUpdateBook ==
    \E id \in StoreCallIds, data \in BookData :
        /\ SameSoFar
        /\ CommitBoth("update_book", id, One(data), NoRet,
                      BoolOutcome(update_book(books_file, id, data)),
                      MockBool(mock_update_book(mock.books, id, data)))
        /\ UNCHANGED <<history_exists, history_file, history_enabled, clock,
                       uuid_next, callers>>

\* delete_book(book_id) on both
BothDeleteBook ==
    \E id \in StoreCallIds :
        /\ SameSoFar
        /\ CommitBoth("delete_book", id, NoArg, NoRet,
                      BoolOutcome(delete_book(books_file, id)),
                      MockBool(mock_delete_book(mock.books, id)))
        /\ UNCHANGED <<history_exists, history_file, history_enabled, clock,
                       uuid_next, callers>>

\* get_all_books() on both
BothGetAllBooks ==
    /\ SameSoFar
    /\ CommitBoth("get_all_books", "", NoArg, <<"list", get_all_books(books_file)>>,
                  Return(Stores),
                  [books |-> mock.books, result |-> "ok",
                   ret |-> <<"list", mock_get_all_books(mock.books)>>])
    /\ UNCHANGED <<history_exists, history_file, history_enabled, clock,
                   uuid_next, callers>>

\* BookService.check_out(book_id) over each of the two, without history
BothCheckOut ==
    \E id \in StoreCallIds :
        LET m == mock_check_out(mock.books, id, clock)
        IN /\ SameSoFar
           /\ CommitBoth("check_out", id, NoArg, NoRet,
                         check_out(Stores, FALSE, id, clock),
                         [books |-> m.books, result |-> m.result, ret |-> NoRet])
           /\ UNCHANGED <<history_exists, history_file, history_enabled, clock,
                          uuid_next, callers>>

\* the two are compared call by call, up to the first call they answer
\* differently
NextMock ==
    BothAddBook \/ BothUpdateBook \/ BothDeleteBook \/ BothGetAllBooks \/ BothCheckOut

\* ---- concurrent callers: a call is a sequence of store calls, and the
\* store calls of two callers interleave
\* caller c is between two calls
AtRest(c) == callers[c].pc \in {"idle", "done"}

\* caller c has finished its call with this result
Finish(c, result) ==
    [Idle EXCEPT !.pc = "done", !.op = callers[c].op, !.id = callers[c].id,
                 !.result = result]

\* check_out up to its first write: get_all_books, the search, found.check_out()
\* and the stamp
CallerCheckOut(c) ==
    \E id \in CallIds :
        LET books == get_all_books(books_file)
            i == Locate(books, id)
            dom == found_check_out(books[i])
            call == [Idle EXCEPT !.op = "check_out", !.id = id]
        IN /\ AtRest(c)
           /\ callers' =
                 [callers EXCEPT ![c] =
                     IF i = 0 THEN [call EXCEPT !.pc = "done", !.result = "NotFound"]
                     ELSE IF dom.raised
                     THEN [call EXCEPT !.pc = "done",
                                       !.result = "InvalidStateTransition"]
                     ELSE [call EXCEPT !.pc = "update",
                                       !.data = [available |-> dom.book.available,
                                                 last_checkout |-> Iso(clock)]]]
           /\ UNCHANGED <<books_file, books_valid, history_exists, history_file,
                          history_enabled, clock, uuid_next, last, mock>>

\* another writer calls update_book(book_id, data) on the store
CallerUpdateBook(c) ==
    \E id \in BookIds :
        /\ AtRest(c)
        /\ callers' = [callers EXCEPT ![c] =
                          [Idle EXCEPT !.op = "update_book", !.id = id, !.pc = "update",
                                       !.data = [title |-> "renamed"]]]
        /\ UNCHANGED <<books_file, books_valid, history_exists, history_file,
                       history_enabled, clock, uuid_next, last, mock>>

\* caller c after its update_book call returned ok (a bool): check_out goes on
\* to the history step when there is a history, update_book is finished
AfterUpdate(c, ok) ==
    IF callers[c].op = "update_book"
    THEN Finish(c, IF ok THEN "true" ELSE "false")
    ELSE IF history_enabled THEN [callers[c] EXCEPT !.pc = "history"]
    ELSE Finish(c, "ok")

\* self.repo.update_book(...) as one store call
CallerUpdate(c) ==
    LET r == update_book(books_file, callers[c].id, callers[c].data)
    IN /\ callers[c].pc = "update"
       /\ books_file' = r.file
       /\ callers' = [callers EXCEPT ![c] = AfterUpdate(c, r.ok)]
       /\ UNCHANGED <<books_valid, history_exists, history_file, history_enabled,
                      clock, uuid_next, last, mock>>

\* update_book: "books = self.get_all_books()"
CallerUpdateRead(c) ==
    /\ callers[c].pc = "update"
    /\ callers' = [callers EXCEPT ![c] = [callers[c] EXCEPT !.pc = "write",
                                                           !.books = books_file,
                                                           !.stale = FALSE]]
    /\ UNCHANGED <<books_file, books_valid, history_exists, history_file,
                   history_enabled, clock, uuid_next, last, mock>>

\* update_book: the loop and "json.dump(...)".  A writer that read before this
\* write and has not written yet holds a list that lacks this change.
CallerUpdateWrite(c) ==
    LET r == update_book_write(books_file, callers[c].books, callers[c].id,
                               callers[c].data)
    IN /\ callers[c].pc = "write"
       /\ books_file' = r.file
       /\ callers' =
             [d \in Callers |->
                 IF d = c THEN AfterUpdate(c, r.ok)
                 ELSE IF callers[d].pc = "write" /\ r.file # books_file
                 THEN [callers[d] EXCEPT !.stale = TRUE]
                 ELSE callers[d]]
       /\ UNCHANGED <<books_valid, history_exists, history_file, history_enabled,
                      clock, uuid_next, last, mock>>

\* check_out: the history step
CallerHistory(c) ==
    LET rec == CheckoutRecord_init(
                   [book_id |-> callers[c].id, action |-> "check_out",
                    timestamp |-> callers[c].data.last_checkout],
                   clock, uuid_next)
        st == RecordHistory(Stores, rec.record, clock)
    IN /\ callers[c].pc = "history"
       /\ IF rec.raised
          THEN /\ callers' = [callers EXCEPT ![c] = Finish(c, "TypeError")]
               /\ UNCHANGED <<history_exists, history_file, uuid_next>>
          ELSE /\ callers' = [callers EXCEPT ![c] = Finish(c, "ok")]
               /\ history_exists' = st.history_exists
               /\ history_file' = st.history_file
               /\ uuid_next' = st.uuid_next
       /\ UNCHANGED <<books_file, books_valid, history_enabled, clock, last, mock>>

\* two callers of check_out whose store calls interleave
NextRace ==
    \E c \in Callers : CallerCheckOut(c) \/ CallerUpdate(c) \/ CallerHistory(c)

\* two writers whose reads and writes of books.json interleave
NextWriters ==
    \E c \in Callers :
        \/ CallerCheckOut(c)
        \/ CallerUpdateBook(c)
        \/ CallerUpdateRead(c)
        \/ CallerUpdateWrite(c)
        \/ CallerHistory(c)

NextService == CheckOut \/ CheckIn \/ Tick

NextCatalog ==
    CheckOut \/ CheckIn \/ Tick \/ AddRecords \/ ServiceUpdateBook \/ ServiceDeleteBook

NextDesk == CheckOut \/ CheckIn \/ Tick \/ AddRecords

NextBuild == BuildBooks

NextHistory == AddRecordsFor \/ UpdateRecordById \/ FindByBookId \/ Tick

NextStore == AddBook \/ ServiceAddBook \/ UpdateBook \/ DeleteBook \/ AddRecords

NextFault == CheckOutFaulty \/ CheckInFaulty \/ Tick

Next == CheckOut \/ CheckIn \/ Tick \/ AddRecord \/ UpdateRecord

\* the REPL alone: check_out and check_in calls
SpecService == Init /\ [][NextService]_vars

\* check_out and check_in calls over a book store that can fail
SpecFault == Init /\ [][NextFault]_vars

\* callers of the book store and of the history store, from empty files
SpecStore == InitStore /\ [][NextStore]_vars

\* the REPL over a history file that other callers add records to
SpecDesk == Init /\ [][NextDesk]_vars

\* every operation of the service a caller can make, over a history file
\* that other callers add records to
SpecCatalog == Init /\ [][NextCatalog]_vars

\* the same calls made on a BookRepository and on a MockBookRepo, both empty
\* at first
SpecMock == InitStore /\ [][NextMock]_vars

\* concurrent check_out calls, interleaved store call by store call
SpecRace == Init /\ [][NextRace]_vars

\* concurrent writers of books.json, interleaved read by read and write by write
SpecWriters == Init /\ [][NextWriters]_vars

\* callers of build_books_from_input
SpecBuild == InitBuild /\ [][NextBuild]_vars

\* callers of the history store, from no file
SpecHistory == InitStore /\ [][NextHistory]_vars

\* the REPL and direct callers of the history store
Spec == Init /\ [][Next]_vars

\* ---------------------------------------------------------------- properties
\* what get_all_records would read
History == _load(history_exists, history_file)

\* the book with this id is in the store file
InStore(file, id) == \E i \in 1..Len(file) : file[i].book_id = id

\* the store file shows the book with this id as available
AvailableIn(file, id) ==
    \E i \in 1..Len(file) : file[i].book_id = id /\ get_all_books(file)[i].available

\* the positions of the open records (returned_at unset) of the book
OpenRecords(file, id) ==
    {i \in 1..Len(file) : file[i].book_id = id /\ file[i].returned_at = None}

\* this step is a call of op with argument id (a call reads the clock, Tick moves it)
CallStep(op, id) == clock' = clock /\ last'.op = op /\ last'.id = id

\* this step leaves both store files as they were
StoresUnchanged ==
    /\ books_file' = books_file
    /\ history_exists' = history_exists
    /\ history_file' = history_file

\* C1: with history enabled, after any sequence of check_out and check_in calls
\* from an all-available store with no history, a book is unavailable exactly
\* when the history holds an open record for it.
C1_UnavailableIffOpenRecord ==
    history_enabled =>
        \A i \in 1..Len(books_file) :
            (~AvailableIn(books_file, books_file[i].book_id))
                <=> (OpenRecords(History, books_file[i].book_id) # {})

\* C2: with history enabled, in every state reached by check_out and check_in
\* calls from an empty history, no book has two open records.
C2_AtMostOneOpenRecord ==
    history_enabled =>
        \A id \in CallIds : Cardinality(OpenRecords(History, id)) <= 1

\* check_out and then check_in have both written the book store, history enabled
C2_Witness ==
    /\ history_enabled
    /\ last.op = "check_in" /\ last.result = "TypeError"
    /\ \E i \in 1..Len(books_file) :
          /\ books_file[i].book_id = last.id
          /\ books_file[i].last_checkout # None

C4_CheckInClosesOpenRecord ==
    [][\A id \in BookIds :
          (/\ history_enabled
           /\ last.op = "check_out" /\ last.id = id
           /\ last.result \in {"ok", "TypeError"}
           /\ CallStep("check_in", id))
          => (/\ AvailableIn(books_file', id)
              /\ Len(History') = Len(History)
              /\ \E i \in 1..Len(History') :
                    /\ History'[i].book_id = id
                    /\ History'[i].returned_at # None
                    /\ History'[i].returned_at[2] >= History'[i].checkout_at[2])]_vars

\* C5: check_out of a book that is already checked out fails with
\* InvalidStateTransition and the book stays unavailable.
C5_SecondCheckOutRejected ==
    [][\A id \in BookIds :
          (/\ CallStep("check_out", id)
           /\ InStore(books_file, id) /\ ~AvailableIn(books_file, id))
          => (/\ last'.result = "InvalidStateTransition"
              /\ InStore(books_file', id) /\ ~AvailableIn(books_file', id))]_vars

\* a check_out was rejected for a book that is checked out
C5_Witness ==
    /\ last.op = "check_out" /\ last.result = "InvalidStateTransition"
    /\ InStore(books_file, last.id) /\ ~AvailableIn(books_file, last.id)

\* C6: check_in of a book that is available fails with InvalidStateTransition
\* and the book stays available.
C6_CheckInOfAvailableRejected ==
    [][\A id \in BookIds :
          (/\ CallStep("check_in", id)
           /\ AvailableIn(books_file, id))
          => (/\ last'.result = "InvalidStateTransition"
              /\ AvailableIn(books_file', id))]_vars

\* a check_in was rejected for a book that is available
C6_Witness ==
    /\ last.op = "check_in" /\ last.result = "InvalidStateTransition"
    /\ AvailableIn(books_file, last.id)

\* C7: with history enabled, check_in of a checked-out book that has no open
\* record makes the book available and ends with the non-fatal outcome
\* HistoryInconsistency, not with an exception.
C7_CheckInWithoutOpenRecordIsNonFatal ==
    [][\A id \in BookIds :
          (/\ history_enabled
           /\ CallStep("check_in", id)
           /\ InStore(books_file, id) /\ ~AvailableIn(books_file, id)
           /\ OpenRecords(History, id) = {})
          => (/\ AvailableIn(books_file', id)
              /\ last'.result = "HistoryInconsistency")]_vars

\* C8: check_out or check_in of an id that no book of the store has fails with
\* NotFound and changes neither store.
C8_MissingIdNotFound ==
    [][\A op \in {"check_out", "check_in"}, id \in CallIds :
          (CallStep(op, id) /\ ~InStore(books_file, id))
          => (last'.result = "NotFound" /\ StoresUnchanged)]_vars

\* a call on the empty store ended NotFound, and the store is still empty
C8_Witness ==
    /\ last.op \in {"check_out", "check_in"} /\ last.result = "NotFound"
    /\ books_file = <<>>

\* C9: a check_out or check_in that fails with InvalidStateTransition leaves
\* both stores exactly as they were.
C9_RejectedCallChangesNothing ==
    [][\A op \in {"check_out", "check_in"}, id \in CallIds :
          (CallStep(op, id) /\ last'.result = "InvalidStateTransition")
          => StoresUnchanged]_vars

\* a call was rejected while the history held a record of the book
C9_Witness ==
    /\ last.op \in {"check_out", "check_in"}
    /\ last.result = "InvalidStateTransition"
    /\ \E i \in 1..Len(History) : History[i].book_id = last.id

\* C10: a returned_at that is set is never cleared or replaced by a later
\* check_out, check_in or update_record call.
C10_ReturnedAtNeverOverwritten ==
    [][\A i \in 1..Len(History) :
          History[i].returned_at # None
          => \E j \in 1..Len(History') :
                /\ History'[j].record_id = History[i].record_id
                /\ History'[j].returned_at = History[i].returned_at]_vars

\* this step leaves the history file and its id generator as they were
HistoryUnchanged ==
    /\ history_exists' = history_exists
    /\ history_file' = history_file
    /\ uuid_next' = uuid_next

\* a call of op on id in this state gets as far as update_book
ReachesUpdate(op, id) ==
    /\ InStore(books_file, id)
    /\ (op = "check_out") => AvailableIn(books_file, id)
    /\ (op = "check_in") => ~AvailableIn(books_file, id)

\* C11: when get_all_books or update_book fails inside check_out or check_in,
\* the error reaches the caller and the history store is not written.
C11_BookStoreFailurePropagates ==
    [][\A op \in {"check_out", "check_in"}, id \in CallIds :
          (/\ CallStep(op, id)
           /\ \/ last'.fault = "read"
              \/ last'.fault = "update" /\ ReachesUpdate(op, id))
          => (last'.result = "StorageUnavailable" /\ HistoryUnchanged)]_vars

\* update_book failed in a call of a service that records history
C11_Witness ==
    /\ history_enabled
    /\ last.op \in {"check_out", "check_in"}
    /\ last.fault = "update" /\ last.result = "StorageUnavailable"

\* the outcomes, in this state, of the calls that would change neither store
\* and do not return success
NothingChangedKinds ==
    {out.result : out \in
        {o \in {check_out([Stores EXCEPT !.fault = f], history_enabled, id, clock) :
                    id \in AnyIds, f \in Faults}
               \cup {check_in([Stores EXCEPT !.fault = f], history_enabled, id, clock) :
                    id \in AnyIds, f \in Faults} :
            /\ o.result # "ok"
            /\ o.st.books_file = books_file
            /\ o.st.history_file = history_file}}

\* C12: a call whose book transition was persisted and whose history write
\* then failed ends with an outcome that no call changing nothing ends with.
C12_HistoryFailureDistinguishable ==
    [][\A op \in {"check_out", "check_in"}, id \in CallIds :
          (/\ CallStep(op, id)
           /\ last'.fault = "none"
           /\ history_enabled
           /\ ReachesUpdate(op, id)
           /\ last'.result # "ok")
          => last'.result \notin NothingChangedKinds]_vars

\* C13: check_out returns success only if update_book wrote the record: when
\* the book was deleted between the snapshot and the update, check_out does not
\* return success and appends no history record.
C13_CheckOutNeedsUpdate ==
    [][\A id \in BookIds :
          (/\ CallStep("check_out", id)
           /\ last'.fault = "deleted"
           /\ ReachesUpdate("check_out", id))
          => (last'.result # "ok" /\ HistoryUnchanged)]_vars

\* C14: the availability of a book changes only by a successful check_out of
\* an available book and by a successful check_in of a checked-out book, so
\* the successful calls on a book alternate.
C14_OnlySuccessfulCallsAlternate ==
    [][\A id \in BookIds :
          /\ (InStore(books_file, id)
              /\ AvailableIn(books_file, id) # AvailableIn(books_file', id))
             => \/ /\ AvailableIn(books_file, id)
                   /\ CallStep("check_out", id) /\ last'.result = "ok"
                \/ /\ ~AvailableIn(books_file, id)
                   /\ CallStep("check_in", id) /\ last'.result = "ok"
          /\ (CallStep("check_out", id) /\ last'.result = "ok" /\ vars' # vars)
             => (AvailableIn(books_file, id) /\ ~AvailableIn(books_file', id))
          /\ (CallStep("check_in", id) /\ last'.result = "ok" /\ vars' # vars)
             => (~AvailableIn(books_file, id) /\ AvailableIn(books_file', id))]_vars

\* the book_ids of the store file, in file order
IdsOf(file) == [i \in 1..Len(file) |-> file[i].book_id]

\* C15: update_book changes no book_id, also when the mapping has a book_id
\* key, and sets nothing that is no field of a Book: the ids of the store are
\* the same after the call.
C15_UpdateKeepsIds ==
    [][\A id \in StoreCallIds :
          CallStep("update_book", id)
          => /\ IdsOf(books_file') = IdsOf(books_file)
             /\ \A i \in 1..Len(books_file') : DOMAIN books_file'[i] = BookFields]_vars

\* C16: update_book with an id that no record has returns false and leaves the
\* store as it was; with an id some record has it returns true and changes at
\* most the first record with that id, every other record and the order staying.
C16_UpdateChangesFirstMatchOnly ==
    [][\A id \in StoreCallIds :
          CallStep("update_book", id)
          => IF ~InStore(books_file, id)
             THEN last'.result = "false" /\ books_file' = books_file
             ELSE /\ last'.result = "true"
                  /\ Len(books_file') = Len(books_file)
                  /\ \A j \in 1..Len(books_file) :
                        (\/ books_file[j].book_id # id
                         \/ \E k \in 1..(j - 1) : books_file[k].book_id = id)
                        => books_file'[j] = books_file[j]]_vars

\* C17: delete_book of an id in the store returns true and leaves the other
\* records, in their order, and no record with that id; of an id not in the
\* store it returns false and leaves the store as it was.
C17_DeleteRemovesId ==
    [][\A id \in StoreCallIds :
          (CallStep("delete_book", id) /\ books_valid)
          => IF InStore(books_file, id)
             THEN /\ last'.result = "true"
                  /\ books_file' = SelectSeq(books_file, LAMBDA d : d.book_id # id)
                  /\ ~InStore(books_file', id)
             ELSE last'.result = "false" /\ books_file' = books_file]_vars

\* delete_book removed a book and left another one in the store
C17_Witness ==
    /\ last.op = "delete_book" /\ last.result = "true"
    /\ books_file # <<>>

\* C18: add_book leaves the store with its previous records, in order,
\* followed by the added ones in order, and returns their ids: one id for one
\* Book, a list for a list; every returned id is in the store.
C18_AddAppendsAndReturnsIds ==
    [][(clock' = clock /\ last'.op = "add_book" /\ last'.result = "ok")
          => LET items == last'.arg.items
                 ids == [j \in 1..Len(items) |-> items[j].book_id]
             IN /\ books_file' = books_file \o items
                /\ last'.ret = IF last'.arg.list THEN ManyIds(ids) ELSE OneId(ids[1])
                /\ \A j \in 1..Len(last'.ret[2]) : InStore(books_file', last'.ret[2][j])]_vars

\* add_book of a list of two Books onto a store that held one
C18_Witness ==
    /\ last.op = "add_book" /\ last.result = "ok"
    /\ last.arg.list /\ Len(last.arg.items) = 2
    /\ Len(books_file) = 3

\* C19: no two records of the book store have the same book_id, whatever
\* add_book, update_book and delete_book calls were made on the empty store.
C19_NoDuplicateBookIds ==
    \A i \in 1..Len(books_file), j \in 1..Len(books_file) :
        i # j => books_file[i].book_id # books_file[j].book_id

\* the item of an add call that its store does not take
InvalidItem(op, x) ==
    IF op = "add_record" THEN ~isinstance_CheckoutRecord(x) ELSE ~isinstance_Book(x)

\* C20: add_book and add_record of a list with an item that is no record
\* raise TypeError and write nothing: both files are as before, the valid
\* items of the list included in neither.
C20_BulkAddAllOrNothing ==
    [][(/\ clock' = clock
        /\ books_valid
        /\ last'.op \in {"add_book", "service_add_book", "add_record"}
        /\ last'.arg.list
        /\ \E j \in 1..Len(last'.arg.items) : InvalidItem(last'.op, last'.arg.items[j]))
          => (/\ last'.result = "TypeError"
              /\ books_file' = books_file
              /\ HistoryUnchanged)]_vars

\* add_book of a list whose first item is a Book and whose second is not
C20_Witness ==
    /\ last.op = "add_book" /\ last.result = "TypeError"
    /\ last.arg.list /\ Len(last.arg.items) = 2
    /\ isinstance_Book(last.arg.items[1]) /\ ~isinstance_Book(last.arg.items[2])
    /\ books_file # <<>>

\* what get_all_records returns in this state and in the next
Records == get_all_records(history_exists, history_file, clock, uuid_next)
RecordsAfter == get_all_records(history_exists', history_file', clock', uuid_next')

\* C21: get_all_records returns the empty list while the history file does
\* not exist, and after the first add_record it returns exactly the records
\* that were added.
C21_FirstAddCreatesHistory ==
    [][(~history_exists => Records = <<>>)
       /\ ((~history_exists /\ clock' = clock
            /\ last'.op = "add_record" /\ last'.result = "ok")
           => (history_exists' /\ RecordsAfter = last'.arg.items))]_vars

\* the first add_record call was given a list of two records
C21_Witness ==
    /\ last.op = "add_record" /\ last.result = "ok"
    /\ last.arg.list /\ Len(last.arg.items) = 2
    /\ history_exists /\ Records = last.arg.items
    /\ last.arg.items[1].record_id = 1

\* C22: update_record returns false and leaves the file as it was when no
\* record has the id; when one has, it returns true, changes no other record
\* and no record_id, also when the mapping has a record_id key.
C22_UpdateRecordChangesOneRecord ==
    [][(clock' = clock /\ last'.op = "update_record")
          => LET rid == last'.arg.items[1]
             IN IF \A j \in 1..Len(History) : History[j].record_id # rid
                THEN last'.result = "false" /\ HistoryUnchanged
                ELSE /\ last'.result = "true"
                     /\ Len(History') = Len(History)
                     /\ \A j \in 1..Len(History) :
                           /\ History'[j].record_id = History[j].record_id
                           /\ History[j].record_id # rid
                              => History'[j] = History[j]]_vars

\* update_record closed the second of two records and left the first open
C22_Witness ==
    /\ last.op = "update_record" /\ last.result = "true"
    /\ Len(History) = 2
    /\ History[1].returned_at = None /\ History[2].returned_at # None

\* the number of records in front of position i that have the book_id
Before(records, id, i) ==
    Cardinality({j \in 1..(i - 1) : records[j].book_id = id})

\* C23: what find_by_book_id returned is the list of the records with that
\* book_id, returned or not, in the order of the store.
C23_FindByBookIdInStoreOrder ==
    last.op = "find_by_book_id"
    => LET found == last.ret[2]
       IN /\ Len(found) = Cardinality({i \in 1..Len(Records) :
                                          Records[i].book_id = last.id})
          /\ \A i \in 1..Len(Records) :
                Records[i].book_id = last.id
                => found[Before(Records, last.id, i) + 1] = Records[i]

\* find_by_book_id returned a closed record followed by an open one
C23_Witness ==
    /\ last.op = "find_by_book_id"
    /\ Len(last.ret[2]) = 2
    /\ last.ret[2][1].returned_at # None /\ last.ret[2][2].returned_at = None

Cuts(str) == {0, Len(str) + 1} \cup {i \in 1..Len(str) : str[i] = ","}

\* the positions between two cuts that hold no blank
Inked(str, lo, hi) == {i \in (lo + 1)..(hi - 1) : str[i] # " "}

\* the cuts that start a piece with a character other than a blank, in order
Starts(str) ==
    {lo \in Cuts(str) :
        \E hi \in Cuts(str) :
            /\ lo < hi /\ \A c \in Cuts(str) : ~(lo < c /\ c < hi)
            /\ Inked(str, lo, hi) # {}}

\* the k-th non-blank piece of a str, from its first to its last non-blank
NonBlank(str, k) ==
    LET lo == CHOOSE x \in Starts(str) :
                  Cardinality({y \in Starts(str) : y < x}) = k - 1
        hi == CHOOSE c \in Cuts(str) :
                  lo < c /\ \A d \in Cuts(str) : ~(lo < d /\ d < c)
        ink == Inked(str, lo, hi)
        first == CHOOSE i \in ink : \A j \in ink : i <= j
        final == CHOOSE i \in ink : \A j \in ink : j <= i
    IN SubSeq(str, first, final)

\* the smaller of two numbers
Least(a, b) == IF a <= b THEN a ELSE b

\* C25: build_books_from_input returns one Book per pair of the non-blank
\* comma-separated titles and authors, the shorter list padded with its last
\* element: none when no title is non-blank, the empty author for every title
\* when no author is non-blank; no store is touched.
C25_BuildBooksPairsEntries ==
    [][(last'.op = "build_books_from_input" /\ last'.result = "ok")
          => LET title_input == last'.arg.items[1]
                 author_input == last'.arg.items[2]
                 n == Cardinality(Starts(title_input))
                 m == Cardinality(Starts(author_input))
                 books == last'.ret[2]
             IN /\ Len(books) = IF n = 0 THEN 0 ELSE IF n >= m THEN n ELSE m
                /\ \A i \in 1..Len(books) :
                      /\ books[i].title = NonBlank(title_input, Least(i, n))
                      /\ books[i].author = IF m = 0 THEN <<>>
                                           ELSE NonBlank(author_input, Least(i, m))
                /\ StoresUnchanged]_vars

\* three titles were paired with two authors that differ
C25_Witness ==
    /\ last.op = "build_books_from_input" /\ last.result = "ok"
    /\ Len(last.ret[2]) = 3
    /\ last.ret[2][1].author # last.ret[2][2].author
    /\ last.ret[2][3].author = last.ret[2][2].author

\* the dict of the book with this id in the store file
BookIn(file, id) == file[CHOOSE i \in 1..Len(file) : file[i].book_id = id]

C27_CheckInKeepsStamp ==
    [][\A id \in BookIds :
          (CallStep("check_in", id) /\ last'.result = "ok")
          => /\ Len(books_file') = Len(books_file)
             /\ \A i \in 1..Len(books_file) :
                   books_file'[i] = IF books_file[i].book_id = id
                                    THEN [books_file[i] EXCEPT !.available = TRUE]
                                    ELSE books_file[i]]_vars

\* a book that was checked out has been checked in and still holds its stamp
C27_Witness ==
    /\ last.op = "check_in" /\ last.result = "ok"
    /\ InStore(books_file, last.id)
    /\ BookIn(books_file, last.id).available
    /\ BookIn(books_file, last.id).last_checkout # None

\* the open record of the book that check_in has to close: the latest
\* checkout_at, the first in store order among equal ones
LatestOpen(file, id) ==
    CHOOSE i \in OpenRecords(file, id) :
        \A j \in OpenRecords(file, id) :
            \/ file[j].checkout_at[2] < file[i].checkout_at[2]
            \/ file[j].checkout_at[2] = file[i].checkout_at[2] /\ i <= j

\* C28: with history enabled, check_in of a checked-out book that has several
\* open records sets returned_at on the one with the latest checkout_at (the
\* first of them in store order), changes no other record and appends none.
C28_CheckInClosesLatestOpen ==
    [][\A id \in BookIds :
          (/\ history_enabled
           /\ CallStep("check_in", id)
           /\ ReachesUpdate("check_in", id)
           /\ Cardinality(OpenRecords(History, id)) > 1)
          => /\ Len(History') = Len(History)
             /\ \A j \in 1..Len(History) :
                   IF j = LatestOpen(History, id)
                   THEN /\ History'[j].returned_at # None
                        /\ History'[j] = [History[j] EXCEPT
                                             !.returned_at = History'[j].returned_at]
                   ELSE History'[j] = History[j]]_vars

\* C29: when the history step of check_out or check_in fails, the book store
\* keeps the transition the call wrote (unavailable after check_out, available
\* after check_in) and the history is as before.
C29_NoRollbackOnHistoryFailure ==
    [][\A op \in {"check_out", "check_in"}, id \in BookIds :
          (/\ history_enabled
           /\ CallStep(op, id)
           /\ ReachesUpdate(op, id)
           /\ last'.result \notin {"ok", "StorageUnavailable"})
          => /\ InStore(books_file', id)
             /\ AvailableIn(books_file', id) = (op = "check_in")
             /\ HistoryUnchanged]_vars

\* the history step of a check_in failed while the history held records
C29_Witness ==
    /\ history_enabled
    /\ last.op = "check_in" /\ last.result = "TypeError"
    /\ InStore(books_file, last.id) /\ AvailableIn(books_file, last.id)
    /\ History # <<>>

\* the record_ids of the history
RecordIds(file) == {file[i].record_id : i \in 1..Len(file)}

C34_CallTouchesOneBookOnly ==
    [][\A op \in {"check_out", "check_in"}, id \in CallIds :
          CallStep(op, id)
          => /\ IdsOf(books_file') = IdsOf(books_file)
             /\ \A i \in 1..Len(books_file) :
                   books_file[i].book_id # id => books_file'[i] = books_file[i]
             /\ Len(History') >= Len(History)
             /\ \A j \in 1..Len(History) :
                   History[j].book_id # id => History'[j] = History[j]]_vars

\* a call on one book got as far as the book store while the store held
\* another book and the history a record of another book
C34_Witness ==
    /\ last.op \in {"check_out", "check_in"}
    /\ last.result \in {"ok", "TypeError"}
    /\ \E i \in 1..Len(books_file) : books_file[i].book_id # last.id
    /\ \E j \in 1..Len(History) : History[j].book_id # last.id

\* every book that has an open record is in the store and checked out
OpenMeansCheckedOut(books, records) ==
    \A id \in BookIds :
        OpenRecords(records, id) # {}
        => InStore(books, id) /\ ~AvailableIn(books, id)

\* C35: BookService.update_book and BookService.delete_book keep the open
\* records and the available flags in agreement: when every book with an open
\* record is in the store and checked out before the call, the same is so
\* after it.
C35_UpdateAndDeleteKeepAgreement ==
    [][\A id \in AnyIds :
          (/\ \/ CallStep("service_update_book", id)
              \/ CallStep("service_delete_book", id)
           /\ OpenMeansCheckedOut(books_file, History))
          => OpenMeansCheckedOut(books_file', History')]_vars

\* C33: after the same sequence of add_book, delete_book, update_book,
\* get_all_books and service check_out calls, MockBookRepo and BookRepository
\* have returned the same result to the last call and hold the same books
\* with the same field values.
C33_MockBehavesLikeRepository ==
    /\ mock.result = last.result
    /\ mock.ret = last.ret
    /\ books_valid => mock.books = get_all_books(books_file)

\* caller c has finished a check_out of the book that read it as available
ReadAvailable(c, id) ==
    /\ callers[c].op = "check_out" /\ callers[c].id = id /\ callers[c].pc = "done"
    /\ callers[c].result \notin {"NotFound", "InvalidStateTransition"}

\* C31: with history enabled, when two concurrent check_out calls on one
\* book have both read the book as available and have both finished, both
\* have returned success and the history holds two open records for the book.
C31_RaceLeavesTwoOpenRecords ==
    \A id \in BookIds :
        (history_enabled /\ \A c \in Callers : ReadAvailable(c, id))
        => /\ \A c \in Callers : callers[c].result = "ok"
           /\ Cardinality(OpenRecords(History, id)) = 2

\* caller c writes books.json in this step
WriteStep(c) == callers[c].pc = "write" /\ callers'[c].pc # "write"

\* C32: a writer that read books.json before another writer wrote it, and
\* writes after, writes every other book as it read it: what the other writer
\* changed in between is gone from the file.
C32_LastWriterWins ==
    [][\A c \in Callers :
          (/\ WriteStep(c)
           /\ callers[c].stale
           /\ InStore(callers[c].books, callers[c].id))
          => /\ Len(books_file') = Len(callers[c].books)
             /\ \A i \in 1..Len(books_file') :
                   books_file'[i].book_id # callers[c].id
                   => books_file'[i] = callers[c].books[i]]_vars

\* a check_out has returned success, the other writer has finished a call on
\* another book, and the store shows the checked-out book as available
C32_Witness ==
    \E c, d \in Callers :
        /\ callers[c].op = "check_out" /\ callers[c].pc = "done"
        /\ callers[c].result = "ok"
        /\ callers[d].pc = "done" /\ callers[d].result \in {"ok", "true"}
        /\ callers[d].id # callers[c].id
        /\ AvailableIn(books_file, callers[c].id)

====
